---- MODULE Spec2Model ----
(***************************************************************************)
(* Operator lowering routines of onnx2kerastl/reshape_layers.py.           *)
(*                                                                         *)
(* The Environment is the dict `layers` (node identifier -> Value), the    *)
(* closure side-table is the dict `lambda_func`.  A Value is a record      *)
(*   tag    "Constant" (numpy array) or "Symbolic" (Keras / TF tensor)     *)
(*   dtype  element type of a numpy array                                  *)
(*   shape  static shape, None for a dimension unknown before run time     *)
(*   data   the elements of a numpy array in row-major (C) order           *)
(*   prim   the target-graph primitive that produced a Symbolic value      *)
(*   rt     the shape the tensor has at run time, for each batch size b    *)
(*          that the graph input is fed with                               *)
(* Python indices are 0-based, TLA+ sequences 1-based.                     *)
(***************************************************************************)
EXTENDS Integers, Sequences, FiniteSets, TLC

VARIABLES
    layers,       \* the Environment: node identifier -> Value
    lambda_func,  \* closure side-table: the keras names that own a closure
    graph,        \* primitives emitted into the target graph, in order
    raised,       \* "none", or the exception the last call propagated
    ncalls,       \* number of lowering calls made by the driver
    calls,        \* the calls made: routine, output identifier, operands, attributes
    nwrites       \* per identifier: how many `layers[id] = ...` statements ran

vars == <<layers, lambda_func, graph, raised, ncalls, calls, nwrites>>

\* Python's None as it appears inside shapes and object arrays.
None == -1000

\* ---------------------------------------------------------------- bounds
MaxCalls == 2
MaxBatch == 2
MaxAxis == 4
MaxRank == 4
MaxTargetLen == 3

Batches == 1..MaxBatch

\* ------------------------------------------------------- sequence helpers
Min(a, b) == IF a < b THEN a ELSE b
Max(a, b) == IF a > b THEN a ELSE b

RECURSIVE Prod(_)
Prod(s) == IF s = <<>> THEN 1 ELSE Head(s) * Prod(Tail(s))

\* s[:n] and s[n:] for n >= 0, and s[-n:] for n >= 1
PyUpTo(s, n) == SubSeq(s, 1, Min(n, Len(s)))
PyFrom(s, n) == SubSeq(s, Min(n, Len(s)) + 1, Len(s))
PyLastN(s, n) == SubSeq(s, Max(Len(s) - n, 0) + 1, Len(s))

Elems(s) == {s[i] : i \in DOMAIN s}
HasNone(s) == None \in Elems(s)
InsertAt(s, a, x) == SubSeq(s, 1, a) \o <<x>> \o SubSeq(s, a + 1, Len(s))
Count(s, x) == Cardinality({i \in DOMAIN s : s[i] = x})

\* ------------------------------------------------------------------ Values
Constant(dtype, shape, data) ==
    [tag |-> "Constant", dtype |-> dtype, shape |-> shape, data |-> data,
     prim |-> "numpy", rt |-> [b \in Batches |-> shape]]

Symbolic(shape, prim, rt) ==
    [tag |-> "Symbolic", dtype |-> "tensor", shape |-> shape, data |-> <<>>,
     prim |-> prim, rt |-> rt]

\* Shape of a tensor that fails to materialize at run time.
RtError == <<None>>

\* A graph input whose only unresolved dimension is the batch axis.
BatchInput(rest) ==
    Symbolic(<<None>> \o rest, "Input", [b \in Batches |-> <<b>> \o rest])

\* A 1-D numpy array.
Vec(dtype, data) == Constant(dtype, <<Len(data)>>, data)

\* utils.is_numpy
is_numpy(v) == v.tag = "Constant"

\* utils.ensure_tf_type: a numpy array becomes a constant tensor of the graph,
\* a tensor is returned as it is.
ensure_tf_type(v) ==
    IF is_numpy(v) THEN Symbolic(v.shape, "Constant", v.rt) ELSE v

ensure_tf_emits(v) == IF is_numpy(v) THEN <<"Constant">> ELSE <<>>

\* ----------------------------------------------------- outcome of one call
Out(l, lf, g, r, w) ==
    [layers |-> l, lambda_func |-> lf, graph |-> g, raised |-> r, writes |-> w]

Put(l, name, v) == (name :> v) @@ l

\* The call raised before any statement changed the dicts.
Raise(exc) == Out(layers, lambda_func, graph, exc, 0)

\* The call raised after it had emitted primitives, before any assignment.
RaiseAfter(exc, emitted) == Out(layers, lambda_func, graph \o emitted, exc, 0)

\* The call assigned layers[name] once and returned.
Return(name, v, emitted) ==
    Out(Put(layers, name, v), lambda_func, graph \o emitted, "none", 1)

\* Output identifiers the driver assigns, in topological order.
OutNames == <<"B", "C", "D", "E", "F">>
node_name == OutNames[ncalls + 1]
keras_name == node_name

\* The driver stops at the first exception (it propagates out of the loop).
CanCall == raised = "none" /\ ncalls < MaxCalls /\ ncalls < Len(OutNames)

\* The call in progress or just finished.
last ==
    IF calls = <<>> THEN [op |-> "none", node_name |-> "", inputs |-> <<>>]
    ELSE calls[Len(calls)]

Apply(call, o) ==
    /\ layers' = o.layers
    /\ lambda_func' = o.lambda_func
    /\ graph' = o.graph
    /\ raised' = o.raised
    /\ ncalls' = ncalls + 1
    /\ calls' = Append(calls, call)
    /\ nwrites' = (call.node_name :> o.writes) @@ nwrites

\* --------------------------------------------------------------- unsqueeze
NpExpandDimsOk(v, axis) ==
    axis >= -(Len(v.shape) + 1) /\ axis <= Len(v.shape)

NpExpandDimsMut(v, axis) == Constant(v.dtype, v.shape \o <<1>>, v.data)

NpExpandDims(v, axis) ==
    LET a == IF axis < 0 THEN axis + Len(v.shape) + 1 ELSE axis
    IN  Constant(v.dtype, InsertAt(v.shape, a, 1), v.data)

TfExpandDims(v, axis) ==
    LET a == IF axis < 0 THEN axis + Len(v.shape) + 1 ELSE axis
    IN  Symbolic(InsertAt(v.shape, a, 1), "tf.expand_dims",
                 [b \in Batches |-> IF HasNone(v.rt[b]) THEN RtError
                                    ELSE InsertAt(v.rt[b], a, 1)])

\* for axis in params['axes']: layers[node_name] = np.expand_dims(layers[node_name], axis)
RECURSIVE UnsqueezeLoop(_, _, _, _)
UnsqueezeLoop(l, name, axes, w) ==
    IF axes = <<>> THEN Out(l, lambda_func, graph, "none", w)
    ELSE IF ~NpExpandDimsOk(l[name], Head(axes))
         THEN Out(l, lambda_func, graph, "AxisError", w)
    ELSE UnsqueezeLoop(Put(l, name, NpExpandDims(l[name], Head(axes))),
                       name, Tail(axes), w + 1)

\* Lines 263-266: a tensor operand takes exactly one axis
UnsqueezeTensorMut(x, axes) ==
    IF Len(axes) # 1 THEN Out(Put(layers, node_name, x), lambda_func, graph, "AttributeError", 1)
    ELSE IF ~NpExpandDimsOk(x, axes[1]) THEN Raise("ValueError")
    ELSE Return(node_name, TfExpandDims(x, axes[1]), <<"tf.expand_dims">>)

UnsqueezeTensor(x, axes) ==
    IF Len(axes) # 1 THEN Raise("AttributeError")
    ELSE IF ~NpExpandDimsOk(x, axes[1]) THEN Raise("ValueError")
    ELSE Return(node_name, TfExpandDims(x, axes[1]), <<"tf.expand_dims">>)

unsqueeze_outcome(in0, ninputs, in1, attr_axes) ==
    IF ninputs \notin {1, 2} THEN Raise("AttributeError")
    ELSE LET axes == IF ninputs = 2 THEN layers[in1].data ELSE attr_axes
             x == layers[in0]
         IN  IF is_numpy(x)
             \* line 258 assigns the operand, the loop then reassigns per axis
             THEN UnsqueezeLoop(Put(layers, node_name, x), node_name, axes, 1)
             ELSE UnsqueezeTensor(x, axes)

convert_unsqueeze(in0, ninputs, in1, attr_axes) ==
    /\ CanCall
    /\ Apply([op |-> "unsqueeze", node_name |-> node_name,
              inputs |-> IF ninputs = 1 THEN <<in0>> ELSE <<in0, in1>>,
              ninputs |-> ninputs, axes |-> attr_axes],
             unsqueeze_outcome(in0, ninputs, in1, attr_axes))

\* ----------------------------------------------------------------- reshape
\* The -1 of a reshape target, when the target is legal for `size` elements.
WildcardOk(size, tgt) ==
    /\ \A i \in DOMAIN tgt : tgt[i] >= -1
    /\ Count(tgt, -1) <= 1
    /\ LET known == Prod([i \in DOMAIN tgt |-> IF tgt[i] = -1 THEN 1 ELSE tgt[i]])
       IN  IF Count(tgt, -1) = 1
           THEN known # 0 /\ size % known = 0
           ELSE known = size

WildcardResolve(size, tgt) ==
    LET known == Prod([i \in DOMAIN tgt |-> IF tgt[i] = -1 THEN 1 ELSE tgt[i]])
    IN  [i \in DOMAIN tgt |-> IF tgt[i] = -1 THEN size \div known ELSE tgt[i]]

RtReshape(rshape, tgt) ==
    IF HasNone(rshape) \/ ~WildcardOk(Prod(rshape), tgt) THEN RtError
    ELSE WildcardResolve(Prod(rshape), tgt)

\* np.reshape(input_0, np.int32(input_1)): the buffer is reread in C order.
NpReshape(v, tgt) == Constant(v.dtype, WildcardResolve(Prod(v.shape), tgt), v.data)

\* keras.layers.Reshape(target)(x): the batch axis is kept, the rest reshaped.
KerasReshapeOk(x, target) ==
    /\ Len(x.shape) >= 1
    /\ \A i \in DOMAIN target : target[i] >= -1
    /\ HasNone(PyFrom(x.shape, 1)) \/ WildcardOk(Prod(PyFrom(x.shape, 1)), target)

KerasReshape(x, target) ==
    Symbolic(<<x.shape[1]>> \o
                (IF HasNone(PyFrom(x.shape, 1))
                 THEN [i \in DOMAIN target |-> IF target[i] = -1 THEN None ELSE target[i]]
                 ELSE WildcardResolve(Prod(PyFrom(x.shape, 1)), target)),
             "keras.Reshape",
             [b \in Batches |->
                 IF HasNone(x.rt[b]) \/ RtReshape(PyFrom(x.rt[b], 1), target) = RtError
                 THEN RtError
                 ELSE <<x.rt[b][1]>> \o RtReshape(PyFrom(x.rt[b], 1), target)])

\* keras.layers.Flatten()(x)
KerasFlatten(x) ==
    LET flat(s) == IF Len(s) = 1 THEN <<s[1], 1>>
                   ELSE <<s[1], IF HasNone(PyFrom(s, 1)) THEN None
                                ELSE Prod(PyFrom(s, 1))>>
    IN  Symbolic(flat(x.shape), "keras.Flatten",
                 [b \in Batches |-> IF HasNone(x.rt[b]) THEN RtError ELSE flat(x.rt[b])])

\* tf.reshape(x, input_1) with the complete target shape
TfReshapeOk(x, tgt) ==
    /\ ~HasNone(tgt)
    /\ \A i \in DOMAIN tgt : tgt[i] >= -1
    /\ Count(tgt, -1) <= 1
    /\ HasNone(x.shape) \/ WildcardOk(Prod(x.shape), tgt)

TfReshape(x, tgt) ==
    Symbolic(IF HasNone(x.shape)
             THEN [i \in DOMAIN tgt |-> IF tgt[i] = -1 THEN None ELSE tgt[i]]
             ELSE WildcardResolve(Prod(x.shape), tgt),
             "tf.reshape",
             [b \in Batches |-> RtReshape(x.rt[b], tgt)])

\* tf.transpose(x, [0, 3, 1, 2]) inside the Lambda layer
TransposeCHW(x) ==
    LET p(s) == <<s[1], s[4], s[2], s[3]>>
    IN  Symbolic(p(x.shape), "keras.Lambda",
                 [b \in Batches |-> IF HasNone(x.rt[b]) THEN RtError ELSE p(x.rt[b])])

\* np.argmin / np.argmax of a boolean array: the first False / the first True
ArgMin(eq) ==
    IF \E i \in DOMAIN eq : ~eq[i]
    THEN (CHOOSE i \in DOMAIN eq : ~eq[i] /\ \A j \in 1..(i - 1) : eq[j]) - 1
    ELSE 0

ArgMax(eq) ==
    IF \E i \in DOMAIN eq : eq[i]
    THEN (CHOOSE i \in DOMAIN eq : eq[i] /\ \A j \in 1..(i - 1) : ~eq[j]) - 1
    ELSE 0

\* np.array(a) == b for two 1-D arrays: elementwise, a length-1 side broadcast.
Comparable(a, b) == Len(a) = Len(b) \/ Len(a) = 1 \/ Len(b) = 1

EqArray(a, b) ==
    IF Len(a) = Len(b) THEN [i \in DOMAIN a |-> a[i] = b[i]]
    ELSE IF Len(a) = 1 THEN [i \in DOMAIN b |-> a[1] = b[i]]
    ELSE [i \in DOMAIN a |-> a[i] = b[1]]

\* first_mismatch = np.argmin(np.array(input_0_shape[:len(input_1)]) == input_1)
FirstMismatchMut(shape, tgt) == ArgMax(EqArray(PyUpTo(shape, Len(tgt)), tgt))

FirstMismatch(shape, tgt) == ArgMin(EqArray(PyUpTo(shape, Len(tgt)), tgt))

IsMiddleRunMut(shape, tgt, first_mismatch) ==
    HasNone(tgt) /\ HasNone(shape) /\ tgt[first_mismatch + 1] = -1

\* The guard of the "reshape end" branch (lines 210-211).
IsMiddleRun(shape, tgt, first_mismatch) ==
    /\ HasNone(tgt)
    /\ HasNone(shape)
    /\ Len(tgt) < Len(shape)
    /\ tgt[first_mismatch + 1] = -1

\* end_idx_match of lines 212-215
EndIdxMatch(shape, tgt, first_mismatch) ==
    LET end_match_arr == EqArray(PyLastN(shape, Len(tgt)), tgt)
        end_idx_match == ArgMax(end_match_arr)
    IN  IF end_idx_match > first_mismatch /\ end_match_arr[end_idx_match + 1]
        THEN end_idx_match + Len(shape) - Len(tgt)
        ELSE Len(shape) + 1

\* tf.reshape(input_0, [*tf_shape[:first_mismatch], -1, *tf_shape[end_idx_match:]])
DynamicReshape(x, first_mismatch, end_idx_match) ==
    LET dims(s) == PyUpTo(s, first_mismatch) \o <<-1>> \o PyFrom(s, end_idx_match)
        static == PyUpTo(x.shape, first_mismatch)
                    \o <<IF HasNone(x.shape) THEN None
                         ELSE RtReshape(x.shape, dims(x.shape))[first_mismatch + 1]>>
                    \o PyFrom(x.shape, end_idx_match)
    IN  Symbolic(static, "tf.reshape:dynamic",
                 [b \in Batches |-> IF HasNone(x.rt[b]) THEN RtError
                                    ELSE RtReshape(x.rt[b], dims(x.rt[b]))])

\* Lines 207-232: a tensor operand, a numpy target, no ordering change.
ReshapeSelect(x, tgt, first_mismatch) ==
    IF IsMiddleRun(x.shape, tgt, first_mismatch)
    THEN {Return(node_name,
                 DynamicReshape(x, first_mismatch,
                                EndIdxMatch(x.shape, tgt, first_mismatch)),
                 <<"tf.shape", "tf.reshape">>)}
    ELSE IF HasNone(PyFrom(tgt, 1)) THEN {Raise("TypeError")}
    ELSE IF Len(tgt) = 2 /\ tgt[2] = -1
         THEN {Return(node_name, KerasFlatten(x), <<"keras.Flatten">>)}
    ELSE IF x.shape[1] # tgt[1]
         THEN IF HasNone(tgt) THEN {Raise("ValueError"), Raise("TypeError")}
              ELSE IF ~TfReshapeOk(x, tgt) THEN {Raise("ValueError")}
              ELSE {Return(node_name, TfReshape(x, tgt), <<"tf.reshape">>)}
    ELSE IF ~KerasReshapeOk(x, PyFrom(tgt, 1)) THEN {Raise("ValueError")}
    ELSE {Return(node_name, KerasReshape(x, PyFrom(tgt, 1)), <<"keras.Reshape">>)}

ReshapeKeepOrdering(x, tgt) ==
    LET a == PyUpTo(x.shape, Len(tgt))
    IN  IF Len(a) = 0 \/ Len(tgt) = 0 THEN {Raise("ValueError")}
        ELSE IF Comparable(a, tgt)
             THEN ReshapeSelect(x, tgt, FirstMismatch(x.shape, tgt))
        \* arrays of different lengths: the comparison is the scalar False
        \* (numpy < 1.25, argmin is 0) or raises (numpy >= 1.25)
        ELSE ReshapeSelect(x, tgt, 0) \cup {Raise("ValueError")}

\* Lines 181-204: a tensor operand, a numpy target, the ordering changes.
ReshapeChangeOrdering(x, tgt) ==
    IF Len(tgt) = 0 \/ (tgt[1] = None /\ Len(tgt) = 1) THEN Raise("IndexError")
    ELSE LET nhwc == tgt[1] = None /\ tgt[2] = -1
         IN  IF nhwc /\ Len(x.shape) # 4 THEN Raise("ValueError")
             ELSE LET first == IF nhwc THEN TransposeCHW(x) ELSE x
                      l1 == Put(layers, node_name, first)
                      lf1 == IF nhwc THEN lambda_func \cup {keras_name} ELSE lambda_func
                      g1 == IF nhwc THEN graph \o <<"keras.Lambda">> ELSE graph
                  IN  IF HasNone(PyFrom(tgt, 1)) THEN Out(l1, lf1, g1, "TypeError", 1)
                      ELSE IF ~KerasReshapeOk(first, PyFrom(tgt, 1))
                           THEN Out(l1, lf1, g1, "ValueError", 1)
                      ELSE Out(Put(l1, node_name, KerasReshape(first, PyFrom(tgt, 1))),
                               lf1, g1 \o <<"keras.Reshape">>, "none", 2)

\* Line 175: the target shape must be a numpy array.
ReshapeTargetIsStaticMut(input_1) == TRUE

ReshapeTargetIsStatic(input_1) == is_numpy(input_1)

reshape_outcomes(in0, in1, change_ordering) ==
    LET input_0 == layers[in0]
        input_1 == layers[in1]
        tgt == input_1.data
    IN  IF ~ReshapeTargetIsStatic(input_1) THEN {Raise("AttributeError")}
        ELSE IF is_numpy(input_0)
             THEN IF HasNone(tgt) THEN {Raise("TypeError")}
                  ELSE IF ~WildcardOk(Prod(input_0.shape), tgt) THEN {Raise("ValueError")}
                  ELSE {Return(node_name, NpReshape(input_0, tgt), <<>>)}
        ELSE IF change_ordering THEN {ReshapeChangeOrdering(input_0, tgt)}
        ELSE ReshapeKeepOrdering(input_0, tgt)

convert_reshape(in0, in1, change_ordering) ==
    /\ CanCall
    /\ \E o \in reshape_outcomes(in0, in1, change_ordering) :
          Apply([op |-> "reshape", node_name |-> node_name, inputs |-> <<in0, in1>>,
                 change_ordering |-> change_ordering], o)

\* ----------------------------------------------------------------- squeeze
\* Lines 360-361: `assert AttributeError(...)` asserts a truthy object, so the
\* statement never raises, whatever the number of inputs.
SqueezeInputCheck(ninputs) == "none"

SqueezeAxisOk(x, axis) ==
    /\ axis >= -Len(x.shape) /\ axis < Len(x.shape)
    /\ LET a == IF axis < 0 THEN axis + Len(x.shape) ELSE axis
       IN  x.shape[a + 1] \in {1, None}

DropAt(s, a) == SubSeq(s, 1, a) \o SubSeq(s, a + 2, Len(s))

DropOnes(s) ==
    LET keep == {i \in DOMAIN s : s[i] # 1}
        RECURSIVE Pick(_)
        Pick(i) == IF i > Len(s) THEN <<>>
                   ELSE (IF i \in keep THEN <<s[i]>> ELSE <<>>) \o Pick(i + 1)
    IN  Pick(1)

\* tf.squeeze(input_0, axis=axis); axis = None removes every axis of size 1
TfSqueeze(x, has_axis, axis) ==
    LET a == IF axis < 0 THEN axis + Len(x.shape) ELSE axis
        sq(s) == IF has_axis THEN DropAt(s, a) ELSE DropOnes(s)
    IN  Symbolic(sq(x.shape), "tf.squeeze",
                 [b \in Batches |->
                     IF HasNone(x.rt[b]) \/ (has_axis /\ x.rt[b][a + 1] # 1)
                     THEN RtError ELSE sq(x.rt[b])])

squeeze_outcome_mut(in0, ninputs, has_axes, axes) ==
    LET input_0 == ensure_tf_type(layers[in0])
    IN  IF has_axes /\ axes = <<>>
        THEN RaiseAfter("IndexError", ensure_tf_emits(layers[in0]))
        ELSE IF has_axes /\ ~SqueezeAxisOk(input_0, axes[1])
             THEN Out(Put(layers, node_name, input_0), lambda_func,
                      graph \o ensure_tf_emits(layers[in0]), "ValueError", 1)
        ELSE Out(Put(layers, node_name,
                     TfSqueeze(input_0, has_axes, IF has_axes THEN axes[1] ELSE 0)),
                 lambda_func, graph \o ensure_tf_emits(layers[in0]) \o <<"tf.squeeze">>,
                 "none", 2)

squeeze_outcome(in0, ninputs, has_axes, axes) ==
    IF SqueezeInputCheck(ninputs) # "none" THEN Raise(SqueezeInputCheck(ninputs))
    ELSE LET input_0 == ensure_tf_type(layers[in0])
             emitted == ensure_tf_emits(layers[in0])
         IN  IF has_axes /\ axes = <<>> THEN RaiseAfter("IndexError", emitted)
             ELSE IF has_axes /\ ~SqueezeAxisOk(input_0, axes[1])
                  THEN RaiseAfter("ValueError", emitted)
             ELSE Return(node_name,
                         TfSqueeze(input_0, has_axes, IF has_axes THEN axes[1] ELSE 0),
                         emitted \o <<"tf.squeeze">>)

convert_squeeze(in0, ninputs, in1, has_axes, axes) ==
    /\ CanCall
    \* without `axes` TF infers an unknown rank for a shape with unknown axes
    /\ has_axes \/ ~HasNone(layers[in0].shape)
    /\ Apply([op |-> "squeeze", node_name |-> node_name,
              inputs |-> IF ninputs = 1 THEN <<in0>> ELSE <<in0, in1>>,
              has_axes |-> has_axes, axes |-> axes],
             squeeze_outcome(in0, ninputs, has_axes, axes))

\* ------------------------------------------------------------------ gather
\* Python index i into an axis of length n
IndexOk(i, n) == i >= -n /\ i < n
NormIndex(i, n) == IF i < 0 THEN i + n ELSE i

RECURSIVE Concat(_)
Concat(ss) == IF ss = <<>> THEN <<>> ELSE Head(ss) \o Concat(Tail(ss))

\* data[indices]: numpy indexing of the first axis by an integer array
NpIndexAxis0Ok(v, idx) ==
    /\ Len(v.shape) >= 1
    /\ \A j \in DOMAIN idx.data : IndexOk(idx.data[j], v.shape[1])

NpIndexAxis0(v, idx) ==
    LET rowsize == Prod(PyFrom(v.shape, 1))
        row(r) == SubSeq(v.data, r * rowsize + 1, (r + 1) * rowsize)
    IN  Constant(v.dtype, idx.shape \o PyFrom(v.shape, 1),
                 Concat([j \in DOMAIN idx.data |->
                            row(NormIndex(idx.data[j], v.shape[1]))]))

\* Lines 92-96: an object array is cast to int32 unless the cast raises TypeError
GatherCoerce(v) ==
    IF v.dtype = "object" /\ ~HasNone(v.data)
    THEN Constant("int32", v.shape, v.data) ELSE v

\* Lines 81-90: the axis dispatch of the numpy path.  For axis 1, 2 and 3 the
\* subscript is applied to the dict `layers` with a key holding slice objects:
\* TypeError (unhashable slice) before Python 3.12, KeyError from 3.12 on.
GatherNumpyMut(v, idx, axis) ==
    IF axis = 0
    THEN IF NpIndexAxis0Ok(v, idx)
         THEN {Return(node_name, GatherCoerce(NpIndexAxis0(v, idx)), <<>>)}
         ELSE {Raise("IndexError")}
    ELSE IF axis \in {1, 2, 3, 4} THEN {Raise("TypeError"), Raise("KeyError")}
    ELSE {Raise("AttributeError")}

GatherNumpy(v, idx, axis) ==
    IF axis = 0
    THEN IF NpIndexAxis0Ok(v, idx)
         THEN {Return(node_name, GatherCoerce(NpIndexAxis0(v, idx)), <<>>)}
         ELSE {Raise("IndexError")}
    ELSE IF axis \in {1, 2, 3} THEN {Raise("TypeError"), Raise("KeyError")}
    ELSE {Raise("AttributeError")}

\* tf.gather(input_0, indices, axis=axis)
TfGatherOk(x, axis) == axis >= -Len(x.shape) /\ axis < Len(x.shape)

TfGather(x, idx, axis) ==
    LET a == NormIndex(axis, Len(x.shape))
        g(s, i) == PyUpTo(s, a) \o i \o PyFrom(s, a + 1)
    IN  Symbolic(g(x.shape, idx.shape), "tf.gather",
                 [b \in Batches |-> IF HasNone(x.rt[b]) \/ HasNone(idx.rt[b])
                                    THEN RtError ELSE g(x.rt[b], idx.rt[b])])

\* tf.keras.layers.Embedding(rows, cols, weights=[table])(indices)
Embedding(x, idx) ==
    Symbolic(idx.shape \o <<x.shape[2]>>, "keras.Embedding",
             [b \in Batches |-> IF HasNone(idx.rt[b]) THEN RtError
                                ELSE idx.rt[b] \o <<x.shape[2]>>])

\* Lines 99-119
GatherGraph(in0, in1, axis, is_embedding) ==
    LET input_0 == ensure_tf_type(layers[in0])
        idx == layers[in1]
        emitted == ensure_tf_emits(layers[in0])
    IN  IF is_embedding
        THEN IF Len(input_0.shape) = 2
             \* the table is installed as the layer's weights: only an array can be
             THEN IF ~is_numpy(layers[in0]) THEN {RaiseAfter("TypeError", emitted)}
                  ELSE {Return(node_name, Embedding(input_0, idx),
                               emitted \o <<"keras.Embedding">>)}
             ELSE {RaiseAfter("AttributeError", emitted)}
        ELSE IF ~TfGatherOk(input_0, axis) THEN {RaiseAfter("ValueError", emitted)}
        ELSE {Return(node_name, TfGather(input_0, idx, axis), emitted \o <<"tf.gather">>)}

gather_outcomes(in0, in1, axis, is_embedding) ==
    IF is_numpy(layers[in0]) /\ is_numpy(layers[in1]) /\ ~is_embedding
    THEN GatherNumpy(layers[in0], layers[in1], axis)
    ELSE GatherGraph(in0, in1, axis, is_embedding)

convert_gather(in0, in1, axis, is_embedding) ==
    /\ CanCall
    /\ \E o \in gather_outcomes(in0, in1, axis, is_embedding) :
          Apply([op |-> "gather", node_name |-> node_name, inputs |-> <<in0, in1>>,
                 axis |-> axis, is_embedding |-> is_embedding], o)

\* ------------------------------------------------------------------- slice
\* The literal of line 332: ONNX's "to the end" value of `ends`.
INT32_MAX == 2147483647

\* Line 332: end = ends[axis_index] if ends[axis_index] < 2147483647 else None
SliceStopMut(e) == IF e <= INT32_MAX THEN e ELSE None

SliceStop(e) == IF e < INT32_MAX THEN e ELSE None

\* list.index: position (0-based) of the first occurrence
ListIndex(s, x) == (CHOOSE i \in DOMAIN s : s[i] = x /\ \A j \in 1..(i - 1) : s[j] # x) - 1

\* Line 325
AxesPositives(axes, input_shape_len) ==
    [i \in DOMAIN axes |-> IF axes[i] >= 0 THEN axes[i] ELSE input_shape_len + axes[i]]

FullRange == [start |-> None, step |-> None, stop |-> None]

\* Lines 327-336: slice_spec_param, one triple per axis of the operand
SliceSpecParam(input_shape_len, axes, starts, ends, steps) ==
    LET axes_positives == AxesPositives(axes, input_shape_len)
    IN  [k \in 1..input_shape_len |->
            IF (k - 1) \in Elems(axes_positives)
            THEN LET axis_index == ListIndex(axes_positives, k - 1)
                 IN  [start |-> starts[axis_index + 1],
                      step |-> steps[axis_index + 1],
                      stop |-> SliceStop(ends[axis_index + 1])]
            ELSE FullRange]

\* The indices range(*slice(start, stop, step).indices(n)) selects.
Steps(lo, hi, step) ==
    LET count == IF step > 0
                 THEN (IF lo >= hi THEN 0 ELSE (hi - lo + step - 1) \div step)
                 ELSE (IF lo <= hi THEN 0 ELSE (lo - hi - step - 1) \div (-step))
    IN  [i \in 1..count |-> lo + (i - 1) * step]

SliceIndices(t, n) ==
    LET step == IF t.step = None THEN 1 ELSE t.step
        clip(v, lo, hi) == IF v < 0 THEN Max(v + n, lo) ELSE Min(v, hi)
    IN  IF step > 0
        THEN Steps(IF t.start = None THEN 0 ELSE clip(t.start, 0, n),
                   IF t.stop = None THEN n ELSE clip(t.stop, 0, n), step)
        ELSE Steps(IF t.start = None THEN n - 1 ELSE clip(t.start, -1, n - 1),
                   IF t.stop = None THEN -1 ELSE clip(t.stop, -1, n - 1), step)

RECURSIVE Sum(_)
Sum(s) == IF s = <<>> THEN 0 ELSE Head(s) + Sum(Tail(s))

\* Row-major stride of (1-based) axis a, and the coordinate of flat index p on it
Stride(shape, a) == Prod(PyFrom(shape, a))
Coord(shape, a, p) == (p \div Stride(shape, a)) % shape[a]

\* x[slice_0, slice_1, ...] on a numpy array held in row-major order
SliceData(shape, data, spec) ==
    LET idxs == [a \in DOMAIN shape |-> SliceIndices(spec[a], shape[a])]
        out == [a \in DOMAIN shape |-> Len(idxs[a])]
        src(p) == Sum([a \in DOMAIN shape |->
                          idxs[a][Coord(out, a, p) + 1] * Stride(shape, a)])
    IN  [p \in 1..Prod(out) |-> data[src(p - 1) + 1]]

SliceShape(shape, spec) ==
    [a \in DOMAIN shape |->
        IF shape[a] = None THEN None ELSE Len(SliceIndices(spec[a], shape[a]))]

\* a numpy array which is a shape: 1-D with an unresolved entry (lines 337-338)
IsShapeArray(v) == is_numpy(v) /\ HasNone(v.data) /\ Len(v.shape) = 1

ZeroStep(spec) == \E a \in DOMAIN spec : spec[a].step = 0

\* Lines 337-346
SliceApply(v, spec, axes) ==
    IF IsShapeArray(v)
    \* start, end and step are what the loop left behind: unbound if it named no axis
    THEN IF 0 \notin Elems(AxesPositives(axes, 1)) THEN Raise("UnboundLocalError")
         ELSE IF ZeroStep(spec) THEN Raise("ValueError")
         ELSE LET sel == SliceIndices(spec[Len(spec)], Len(v.data))
              IN  Return(node_name,
                         Vec(v.dtype, [i \in DOMAIN sel |-> v.data[sel[i] + 1]]), <<>>)
    ELSE IF ZeroStep(spec) THEN RaiseAfter("ValueError", ensure_tf_emits(v))
    ELSE IF is_numpy(v)
         THEN Return(node_name,
                     Constant(v.dtype, SliceShape(v.shape, spec),
                              SliceData(v.shape, v.data, spec)),
                     <<"Constant", "SlicingOpLambda">>)
    ELSE Return(node_name,
                Symbolic(SliceShape(v.shape, spec), "SlicingOpLambda",
                         [b \in Batches |-> IF HasNone(v.rt[b]) THEN RtError
                                            ELSE SliceShape(v.rt[b], spec)]),
                <<"SlicingOpLambda">>)

\* `steps` defaults to [None] * len(axes) (lines 314, 322)
SliceSteps(has_steps, steps, axes) ==
    IF has_steps THEN steps ELSE [i \in DOMAIN axes |-> None]

slice_outcome(in0, change_ordering, axes, starts, ends, steps) ==
    IF change_ordering THEN Raise("NotImplementedError")
    ELSE SliceApply(layers[in0],
                    SliceSpecParam(Len(layers[in0].shape), axes, starts, ends, steps),
                    axes)

\* The four lists come from the node's attributes (lines 311-314) or from its
\* inputs 1..4 read out of the Environment (lines 316-322); either way they are
\* plain lists of the same length when the loop starts.
convert_slice(in0, change_ordering, axes, starts, ends, has_steps, steps) ==
    /\ CanCall
    /\ Apply([op |-> "slice", node_name |-> node_name, inputs |-> <<in0>>,
              change_ordering |-> change_ordering, axes |-> axes, starts |-> starts,
              ends |-> ends, steps |-> SliceSteps(has_steps, steps, axes),
              slice_spec_param |->
                  IF change_ordering THEN <<>>
                  ELSE SliceSpecParam(Len(layers[in0].shape), axes, starts, ends,
                                      SliceSteps(has_steps, steps, axes))],
             slice_outcome(in0, change_ordering, axes, starts, ends,
                           SliceSteps(has_steps, steps, axes)))

\* ------------------------------------------------------------------ resize
\* Line 380, `if roi:`.  None is falsy; a numpy array is falsy when empty (with a
\* DeprecationWarning) or when its single element is zero, truthy when its single
\* element is non-zero, and has no truth value when it holds several elements.
RoiTruth(has_roi, roi) ==
    IF ~has_roi THEN "false"
    ELSE IF Prod(roi.shape) = 0 THEN "false"
    ELSE IF Prod(roi.shape) = 1 THEN (IF roi.data[1] # 0 THEN "true" ELSE "false")
    ELSE "ValueError"

ResizeModes == {"nearest", "cubic", "linear"}

\* keras.layers.Permute applied to axes 1.., the batch axis stays
ToChannelLast(s) == <<s[1], s[3], s[4], s[2]>>
ToChannelFirst(s) == <<s[1], s[4], s[2], s[3]>>

Resized(x, hw) ==
    LET r(s) == ToChannelFirst(<<ToChannelLast(s)[1], hw[1], hw[2], ToChannelLast(s)[4]>>)
    IN  Symbolic(r(x.shape), "keras.Permute",
                 [b \in Batches |-> IF HasNone(x.rt[b]) THEN RtError ELSE r(x.rt[b])])

ResizeEmitted == <<"keras.Permute", "tf.image.resize", "keras.Permute">>

\* Lines 392-408
ResizeBody(x, scales, has_sizes, sizes) ==
    IF Len(x.shape) # 4 THEN Raise("ValueError")
    ELSE LET to_channel_last == ToChannelLast(x.shape)
         IN  IF Len(scales) > 0
             THEN IF scales[1] # 1 \/ scales[2] # 1 THEN Raise("Exception: batch or channel")
                  ELSE IF to_channel_last[2] = None \/ to_channel_last[3] = None
                       THEN Raise("TypeError")
                  ELSE Return(node_name,
                              Resized(x, <<scales[3] * to_channel_last[2],
                                           scales[4] * to_channel_last[3]>>),
                              ResizeEmitted)
             ELSE IF ~has_sizes THEN Raise("TypeError")
                  ELSE IF sizes[1] # x.shape[1] \/ sizes[2] # x.shape[2]
                       THEN Raise("Exception: batch or channel")
                  ELSE Return(node_name, Resized(x, <<sizes[3], sizes[4]>>), ResizeEmitted)

\* Lines 374-390: the region of interest is tested first, then the mode
ResizeChecksMut(roi_truth, mode) ==
    IF mode \notin ResizeModes THEN "Exception: unsupported resize method"
    ELSE IF roi_truth = "ValueError" THEN "ValueError"
    ELSE IF roi_truth = "true" THEN "Exception: roi"
    ELSE "none"

ResizeChecks(roi_truth, mode) ==
    IF roi_truth = "ValueError" THEN "ValueError"
    ELSE IF roi_truth = "true" THEN "Exception: roi"
    ELSE IF mode \notin ResizeModes THEN "Exception: unsupported resize method"
    ELSE "none"

resize_outcome(in0, in1, in2, ninputs, in3, mode) ==
    LET has_roi == in1 # ""
        roi == IF has_roi THEN layers[in1] ELSE layers[in0]
        scales == IF in2 = "" THEN <<>> ELSE layers[in2].data
        check == ResizeChecks(RoiTruth(has_roi, roi), mode)
    IN  IF check # "none" THEN Raise(check)
        ELSE ResizeBody(layers[in0], scales, ninputs = 4,
                        IF ninputs = 4 THEN layers[in3].data ELSE <<>>)

convert_resize(in0, in1, in2, ninputs, in3, mode) ==
    /\ CanCall
    /\ Apply([op |-> "resize", node_name |-> node_name,
              inputs |-> IF ninputs = 4 THEN <<in0, in1, in2, in3>> ELSE <<in0, in1, in2>>,
              mode |-> mode],
             resize_outcome(in0, in1, in2, ninputs, in3, mode))

\* --------------------------------------------------------------- transpose
IsPerm(perm, rank) == Len(perm) = rank /\ Elems(perm) = 0..(rank - 1)

PermuteShape(s, perm) == [a \in DOMAIN perm |-> s[perm[a] + 1]]

\* np.transpose(x, axes=perm) on a row-major buffer
NpTranspose(v, perm) ==
    LET out == PermuteShape(v.shape, perm)
        src(p) == Sum([a \in DOMAIN perm |->
                          Coord(out, a, p) * Stride(v.shape, perm[a] + 1)])
    IN  Constant(v.dtype, out, [p \in 1..Prod(out) |-> v.data[src(p - 1) + 1]])

TfTranspose(x, perm, prim) ==
    Symbolic(PermuteShape(x.shape, perm), prim,
             [b \in Batches |-> IF HasNone(x.rt[b]) THEN RtError
                                ELSE PermuteShape(x.rt[b], perm)])

\* Lines 26-35
transpose_outcome(in0, perm) ==
    LET x == layers[in0]
    IN  IF perm[1] # 0
        THEN IF ~IsPerm(perm, Len(x.shape)) THEN Raise("ValueError")
             ELSE IF is_numpy(x) THEN Return(node_name, NpTranspose(x, perm), <<>>)
             ELSE Return(node_name, TfTranspose(x, perm, "tf.transpose"), <<"tf.transpose">>)
        \* keras.layers.Permute(perm[1:]) takes the axes 1.. of the operand
        ELSE IF ~IsPerm(perm, Len(x.shape)) THEN Raise("ValueError")
        ELSE Return(node_name, TfTranspose(x, perm, "keras.Permute"), <<"keras.Permute">>)

convert_transpose(in0, perm) ==
    /\ CanCall
    /\ Apply([op |-> "transpose", node_name |-> node_name, inputs |-> <<in0>>,
              perm |-> perm],
             transpose_outcome(in0, perm))

\* ------------------------------------------------------------------- shape
\* Lines 50-62: the static shape as a numpy array, None for an unknown axis
shape_outcome(in0) ==
    LET input_0 == ensure_tf_type(layers[in0])
    IN  Out(Put(layers, node_name,
                Vec(IF HasNone(input_0.shape) THEN "object" ELSE "int64", input_0.shape)),
            lambda_func, graph \o ensure_tf_emits(layers[in0]), "none", 1)

convert_shape(in0) ==
    /\ CanCall
    /\ Apply([op |-> "shape", node_name |-> node_name, inputs |-> <<in0>>],
             shape_outcome(in0))

\* ------------------------------------------------------------------ concat
\* Two shapes that differ on `axis` (0-based) at most; None matches any size.
ConcatOk(s, t, axis) ==
    /\ Len(s) = Len(t) /\ Len(s) >= 1
    /\ axis >= -Len(s) /\ axis < Len(s)
    /\ \A a \in DOMAIN s :
          a # NormIndex(axis, Len(s)) + 1 => (s[a] = t[a] \/ s[a] = None \/ t[a] = None)

ConcatShape(s, t, axis) ==
    [a \in DOMAIN s |->
        IF a = NormIndex(axis, Len(s)) + 1
        THEN (IF s[a] = None \/ t[a] = None THEN None ELSE s[a] + t[a])
        ELSE (IF s[a] = None THEN t[a] ELSE s[a])]

\* np.concatenate([v, w], axis) on row-major buffers
NpConcatenate(v, w, axis) ==
    LET ax == NormIndex(axis, Len(v.shape)) + 1
        out == ConcatShape(v.shape, w.shape, axis)
        elem(p) ==
            LET c == Coord(out, ax, p)
                from_v == c < v.shape[ax]
                u == IF from_v THEN v ELSE w
                off(a) == IF a = ax /\ ~from_v THEN Coord(out, a, p) - v.shape[ax]
                          ELSE Coord(out, a, p)
            IN  u.data[Sum([a \in DOMAIN out |-> off(a) * Stride(u.shape, a)]) + 1]
    IN  Constant(v.dtype, out, [p \in 1..Prod(out) |-> elem(p - 1)])

TfConcat(x, y, axis, prim) ==
    Symbolic(ConcatShape(x.shape, y.shape, axis), prim,
             [b \in Batches |->
                 IF HasNone(x.rt[b]) \/ HasNone(y.rt[b])
                    \/ ~ConcatOk(x.rt[b], y.rt[b], axis) THEN RtError
                 ELSE ConcatShape(x.rt[b], y.rt[b], axis)])

\* Lines 135-156, for a node of one or two inputs
concat_outcome(ins, axis) ==
    LET layer_input == [i \in DOMAIN ins |-> layers[ins[i]]]
        x == layer_input[1]
        y == layer_input[Len(ins)]
    IN  IF \A i \in DOMAIN ins : is_numpy(layer_input[i])
        THEN IF Len(ins) = 1
             THEN IF Len(x.shape) >= 1 /\ axis >= -Len(x.shape) /\ axis < Len(x.shape)
                  THEN Return(node_name, x, <<>>) ELSE Raise("ValueError")
             ELSE IF ~ConcatOk(x.shape, y.shape, axis) THEN Raise("ValueError")
             ELSE Return(node_name, NpConcatenate(x, y, axis), <<>>)
        ELSE IF Len(ins) > 1
             THEN IF ~ConcatOk(x.shape, y.shape, axis) THEN Raise("ValueError")
                  ELSE IF \E i \in DOMAIN ins : is_numpy(layer_input[i])
                       THEN Return(node_name, TfConcat(x, y, axis, "tf.concat"),
                                   <<"tf.concat">>)
                  ELSE Return(node_name, TfConcat(x, y, axis, "keras.concatenate"),
                              <<"keras.concatenate">>)
        ELSE Return(node_name, x, <<>>)

convert_concat(ins, axis) ==
    /\ CanCall
    /\ Apply([op |-> "concat", node_name |-> node_name, inputs |-> ins, axis |-> axis],
             concat_outcome(ins, axis))

\* ----------------------------------------------------------------- flatten
\* Lines 282-292
flatten_outcome(in0, ninputs) ==
    IF ninputs # 1 THEN Raise("AttributeError")
    ELSE LET input_0 == ensure_tf_type(layers[in0])
             emitted == ensure_tf_emits(layers[in0])
         IN  IF Len(input_0.shape) # 4 THEN RaiseAfter("ValueError", emitted)
             ELSE Return(node_name,
                         KerasFlatten(TfTranspose(input_0, <<0, 3, 1, 2>>, "keras.Permute")),
                         emitted \o <<"keras.Permute", "keras.Flatten">>)

convert_flatten(in0, ninputs, in1) ==
    /\ CanCall
    /\ Apply([op |-> "flatten", node_name |-> node_name,
              inputs |-> IF ninputs = 1 THEN <<in0>> ELSE <<in0, in1>>],
             flatten_outcome(in0, ninputs))

\* ------------------------------------------------------------------ expand
\* Broadcasting of two shapes, aligned at their last axes
PadLeft(s, n) == [i \in 1..(n - Len(s)) |-> 1] \o s

BroadcastOk(s, t) ==
    LET n == Max(Len(s), Len(t))
    IN  \A a \in 1..n :
           LET d == PadLeft(s, n)[a]
               e == PadLeft(t, n)[a]
           IN  d = e \/ d = 1 \/ e = 1 \/ d = None \/ e = None

Broadcast(s, t) ==
    LET n == Max(Len(s), Len(t))
    IN  [a \in 1..n |->
            LET d == PadLeft(s, n)[a]
                e == PadLeft(t, n)[a]
            IN  IF d = 1 THEN e ELSE IF e = 1 THEN d
                ELSE IF d = None THEN e ELSE d]

\* Lines 422-428; line 423 asserts a truthy object and never raises
expand_outcome(in0, in1) ==
    LET input_0 == ensure_tf_type(layers[in0])
        emitted == ensure_tf_emits(layers[in0])
        input_1 == layers[in1].data
    IN  IF HasNone(input_1) THEN RaiseAfter("TypeError", emitted)
        ELSE IF (\E i \in DOMAIN input_1 : input_1[i] < 0)
                \/ ~BroadcastOk(input_0.shape, input_1)
             THEN RaiseAfter("ValueError", emitted)
        ELSE Return(node_name,
                    Symbolic(Broadcast(input_0.shape, input_1), "tf.multiply",
                             [b \in Batches |->
                                 IF HasNone(input_0.rt[b])
                                    \/ ~BroadcastOk(input_0.rt[b], input_1) THEN RtError
                                 ELSE Broadcast(input_0.rt[b], input_1)]),
                    emitted \o <<"tf.ones", "tf.multiply">>)

convert_expand(in0, in1) ==
    /\ CanCall
    /\ Apply([op |-> "expand", node_name |-> node_name, inputs |-> <<in0, in1>>],
             expand_outcome(in0, in1))

\* -------------------------------------------------------------------- tile
\* Line 432: tf.tile(input, multiples)
TileShape(s, m) == [a \in DOMAIN s |-> IF s[a] = None THEN None ELSE s[a] * m[a]]

tile_outcome(in0, in1) ==
    LET x == layers[in0]
        m == layers[in1].data
    IN  IF HasNone(m) \/ Len(m) # Len(x.shape) \/ (\E i \in DOMAIN m : m[i] < 0)
        THEN Raise("ValueError")
        ELSE Return(node_name,
                    Symbolic(TileShape(x.shape, m), "tf.tile",
                             [b \in Batches |-> IF HasNone(x.rt[b]) THEN RtError
                                                ELSE TileShape(x.rt[b], m)]),
                    <<"tf.tile">>)

convert_tile(in0, in1) ==
    /\ CanCall
    /\ Apply([op |-> "tile", node_name |-> node_name, inputs |-> <<in0, in1>>],
             tile_outcome(in0, in1))

\* ------------------------------------------------------------- environment
Iota(n) == [i \in 1..n |-> i]

\* The initializers and graph inputs the driver puts into `layers` before the
\* first node is lowered.
Initializers ==
    [A   |-> Constant("float32", <<1, 4, 6, 6>>, Iota(144)),
     X   |-> BatchInput(<<3, 4, 4>>),
     ax0 |-> Vec("int64", <<0>>),
     t1m |-> Vec("int64", <<1, -1>>),
     tNm |-> Vec("object", <<None, -1>>),
     t15 |-> Vec("int64", <<1, 5>>),
     tN5 |-> Vec("object", <<None, -1, 5>>),
     tS  |-> Symbolic(<<2>>, "Input", [b \in Batches |-> <<2>>]),
     i1  |-> Constant("int64", <<>>, <<1>>),
     r8  |-> Vec("float32", <<0, 0, 0, 0, 1, 1, 1, 1>>),
     sc  |-> Vec("float32", <<1, 1, 2, 2>>)]

GatherEnv ==
    [G1  |-> Vec("int64", <<5, 6, 7>>),
     G2  |-> Constant("int64", <<2, 3>>, <<10, 11, 12, 13, 14, 15>>),
     G3  |-> Constant("int64", <<2, 1, 2>>, <<20, 21, 22, 23>>),
     G5  |-> Constant("int64", <<1, 1, 1, 2, 2>>, <<30, 31, 32, 33>>),
     Gs  |-> Vec("object", <<None, 3, 4, 4>>),
     Go  |-> Vec("object", <<1, 3, 4, 4>>),
     X   |-> BatchInput(<<3, 4, 4>>),
     X2  |-> BatchInput(<<2>>),
     X5  |-> BatchInput(<<1, 2, 1, 2>>),
     i1  |-> Constant("int64", <<>>, <<1>>),
     i01 |-> Vec("int64", <<0, 1>>),
     im1 |-> Vec("int64", <<-1>>),
     i9  |-> Vec("int64", <<9>>),
     iS  |-> BatchInput(<<2>>)]

SliceEnv ==
    [V10 |-> Vec("int64", <<0, 1, 2, 3, 4, 5, 6, 7, 8, 9>>),
     G2  |-> Constant("int64", <<2, 3>>, <<10, 11, 12, 13, 14, 15>>),
     G3  |-> Constant("int64", <<2, 1, 2>>, <<20, 21, 22, 23>>),
     Gs  |-> Vec("object", <<None, 3, 4, 4>>),
     X   |-> BatchInput(<<3, 4, 4>>)]

ResizeEnv ==
    [K   |-> Constant("float32", <<1, 1, 2, 2>>, <<1, 2, 3, 4>>),
     X   |-> BatchInput(<<3, 4, 4>>),
     X5  |-> BatchInput(<<1, 2, 1, 2>>),
     r0  |-> Vec("float32", <<>>),
     rz  |-> Vec("float32", <<0>>),
     r1  |-> Vec("float32", <<1>>),
     r8  |-> Vec("float32", <<0, 0, 0, 0, 1, 1, 1, 1>>),
     sc  |-> Vec("float32", <<1, 1, 2, 2>>),
     scb |-> Vec("float32", <<2, 1, 2, 2>>),
     sz  |-> Vec("int64", <<1, 1, 4, 4>>),
     szb |-> Vec("int64", <<2, 1, 4, 4>>)]

InitWith(env) ==
    /\ layers = env
    /\ lambda_func = {}
    /\ graph = <<>>
    /\ raised = "none"
    /\ ncalls = 0
    /\ calls = <<>>
    /\ nwrites = [n \in DOMAIN env |-> 1]

Init == InitWith(Initializers)

\* ------------------------------------------------ a translation pass (Spec)
\* Tensors a node may consume: two initial ones and every output written so far.
DataNames == {"A", "X"} \cup (DOMAIN layers \cap Elems(OutNames))

ReshapeTargets == {"t1m", "tNm", "t15", "tN5", "tS"}
UnsqueezeAxes == {<<0>>, <<0, 9>>, <<-1, 1>>}

Unsqueeze ==
    \E in0 \in DataNames :
       \/ \E a \in UnsqueezeAxes : convert_unsqueeze(in0, 1, "", a)
       \/ \E n \in {2, 3} : convert_unsqueeze(in0, n, "ax0", <<>>)

Reshape ==
    \E in0 \in DataNames, in1 \in ReshapeTargets, co \in BOOLEAN :
       convert_reshape(in0, in1, co)

Squeeze ==
    \E in0 \in DataNames :
       \/ convert_squeeze(in0, 1, "", FALSE, <<>>)
       \/ \E a \in {<<0>>, <<1>>} : convert_squeeze(in0, 1, "", TRUE, a)
       \/ convert_squeeze(in0, 2, "ax0", FALSE, <<>>)

Gather ==
    \E in0 \in DataNames : convert_gather(in0, "i1", 0, FALSE)

Slice ==
    \E in0 \in DataNames : convert_slice(in0, FALSE, <<0>>, <<0>>, <<INT32_MAX>>, FALSE, <<>>)

Resize ==
    \E in0 \in DataNames, in1 \in {"", "r8"} :
       convert_resize(in0, in1, "sc", 3, "", "nearest")

Transpose ==
    \E in0 \in DataNames, perm \in {<<0, 2, 3, 1>>, <<1, 0, 2, 3>>} :
       convert_transpose(in0, perm)

Shape == \E in0 \in DataNames : convert_shape(in0)

Concat2 ==
    \E in0 \in DataNames :
       \/ convert_concat(<<in0>>, 0)
       \/ \E in1 \in {"A", "X"} : convert_concat(<<in0, in1>>, 1)

Flatten == \E in0 \in DataNames, n \in {1, 2} : convert_flatten(in0, n, "ax0")

Expand == \E in0 \in DataNames, in1 \in {"t15", "tNm"} : convert_expand(in0, in1)

Tile == \E in0 \in DataNames, in1 \in {"sc", "t15"} : convert_tile(in0, in1)

Next ==
    \/ Unsqueeze \/ Reshape \/ Squeeze \/ Gather \/ Slice \/ Resize
    \/ Transpose \/ Shape \/ Concat2 \/ Flatten \/ Expand \/ Tile

Spec == Init /\ [][Next]_vars

\* ------------------------------------------- one gather node (SpecGather)
GatherData == {"G1", "G2", "G3", "G5", "Gs", "Go", "X", "X2", "X5"}
GatherIndices == {"i1", "i01", "im1", "i9", "iS"}

NextGather ==
    /\ ncalls = 0
    /\ \E in0 \in GatherData, in1 \in GatherIndices, axis \in 0..MaxAxis,
          is_embedding \in BOOLEAN :
          convert_gather(in0, in1, axis, is_embedding)

InitGather == InitWith(GatherEnv)

SpecGather == InitGather /\ [][NextGather]_vars

\* --------------------------------------------- one slice node (SpecSlice)
SliceData1 == {"V10", "G2", "G3", "Gs", "X"}
AxisVals == {0, 1, -1}
StartVals == {0, 2, -3}
EndVals == {5, -1, INT32_MAX - 1, INT32_MAX}
StepVals == {1, 2, -1, 0}

Singles(S) == {<<a>> : a \in S}
Pairs(S) == {<<a, b>> : a \in S, b \in S}

\* ONNX leaves a repeated axis undefined: the axes of one node are distinct.
DistinctAxes(axes, rank) ==
    \A i, j \in DOMAIN axes :
       i # j => AxesPositives(axes, rank)[i] # AxesPositives(axes, rank)[j]

NextSlice ==
    /\ ncalls = 0
    /\ \E in0 \in SliceData1 :
          \/ \E axes \in Singles(AxisVals), starts \in Singles(StartVals),
                ends \in Singles(EndVals) :
                /\ DistinctAxes(axes, Len(layers[in0].shape))
                /\ \/ convert_slice(in0, FALSE, axes, starts, ends, FALSE, <<>>)
                   \/ \E steps \in Singles(StepVals) :
                         convert_slice(in0, FALSE, axes, starts, ends, TRUE, steps)
          \/ \E axes \in Pairs(AxisVals), starts \in Pairs(StartVals),
                ends \in Pairs(EndVals) :
                /\ DistinctAxes(axes, Len(layers[in0].shape))
                /\ \/ convert_slice(in0, FALSE, axes, starts, ends, FALSE, <<>>)
                   \/ convert_slice(in0, FALSE, axes, starts, ends, TRUE, <<2, 1>>)
          \/ convert_slice(in0, TRUE, <<0>>, <<0>>, <<5>>, FALSE, <<>>)

InitSlice == InitWith(SliceEnv)

SpecSlice == InitSlice /\ [][NextSlice]_vars

\* ------------------------------------------- one resize node (SpecResize)
ResizeData == {"K", "X", "X5"}
RoiNames == {"", "r0", "rz", "r1", "r8"}

NextResize ==
    /\ ncalls = 0
    /\ \E in0 \in ResizeData, in1 \in RoiNames, in2 \in {"", "r0", "sc", "scb"},
          mode \in ResizeModes \cup {"area"} :
          \/ convert_resize(in0, in1, in2, 3, "", mode)
          \/ \E in3 \in {"sz", "szb"} : convert_resize(in0, in1, in2, 4, in3, mode)

InitResize == InitWith(ResizeEnv)

SpecResize == InitResize /\ [][NextResize]_vars

\* ------------------------------------------ one reshape node (SpecReshape)
Dims == {None, 3, 4}
TargetDims == {None, -1, 3, 4, 48}

RECURSIVE Tuples(_, _)
Tuples(S, n) ==
    IF n = 0 THEN {<<>>} ELSE {<<x>> \o t : x \in S, t \in Tuples(S, n - 1)}

SourceShapes == UNION {Tuples(Dims, n) : n \in 1..MaxRank}
TargetShapes == UNION {Tuples(TargetDims, n) : n \in 1..MaxTargetLen}

\* A tensor whose unresolved axes all take the batch size at run time.
Tensor(shape) ==
    Symbolic(shape, "Input",
             [b \in Batches |-> [i \in DOMAIN shape |->
                                    IF shape[i] = None THEN b ELSE shape[i]]])

TargetArray(t) == Vec(IF HasNone(t) THEN "object" ELSE "int64", t)

InitReshape ==
    \E shape \in SourceShapes, t \in TargetShapes :
       InitWith([src |-> Tensor(shape), tgt |-> TargetArray(t)])

NextReshape ==
    /\ ncalls = 0
    /\ convert_reshape("src", "tgt", FALSE)

SpecReshape == InitReshape /\ [][NextReshape]_vars

\* ================================================================== claims
Written == last.node_name \in DOMAIN layers
Operand(k) == layers[last.inputs[k]]

\* ---- C1 (SpecGather)
GatherAxis4 == last.op = "gather" /\ last.axis = 4

GatherNumpyPath ==
    is_numpy(Operand(1)) /\ is_numpy(Operand(2)) /\ ~last.is_embedding

\* C1 as stated: gather with axis = 4 raises and writes no Environment entry,
\* whatever the kinds of the data and index operands and with or without the
\* embedding flag.  (Stated with "raises at all" for "raises the configuration
\* error": the routine does not even do that.)
C1_GatherAxis4AlwaysRejected ==
    GatherAxis4 => raised # "none" /\ ~Written

\* C1 amended: gather with axis = 4 raises the configuration error and writes
\* no Environment entry when the data and the index operand are both Constant
\* and the node is not an embedding lookup (on the graph path the axis is not
\* checked by the routine).
C1_GatherAxis4RejectedOnNumpyPath ==
    (GatherAxis4 /\ GatherNumpyPath) => raised = "AttributeError" /\ ~Written

C1_Witness ==
    /\ GatherAxis4 /\ GatherNumpyPath
    /\ last.inputs = <<"G2", "i01">>
    /\ raised = "AttributeError"

\* ---- C2 (SpecReshape)
ReshapeNone344 ==
    /\ last.op = "reshape" /\ ~last.change_ordering
    /\ ~is_numpy(Operand(1)) /\ Operand(1).shape = <<None, 3, 4, 4>>
    /\ is_numpy(Operand(2)) /\ Operand(2).data = <<None, -1>>

\* C2 as stated: reshaping a Symbolic (None, 3, 4, 4) to the Constant target
\* (None, -1) without ordering change emits the flatten primitive, and the
\* result is 2-D with second dimension 48 when the batch is 1 at run time.
C2_FlattenBranchFires ==
    ReshapeNone344 =>
        /\ raised = "none" /\ Written
        /\ layers[last.node_name].prim = "keras.Flatten"
        /\ layers[last.node_name].rt[1] = <<1, 48>>

\* C2 amended: that reshape takes the dynamic middle-run branch (step 2: the
\* target and the source both hold an unresolved axis, the target is shorter
\* and -1 sits at the mismatch index 1); the result is still 2-D with second
\* dimension 48 when the batch is 1 at run time.
C2_MiddleRunBranchFires ==
    ReshapeNone344 =>
        /\ raised = "none" /\ Written
        /\ layers[last.node_name].prim = "tf.reshape:dynamic"
        /\ layers[last.node_name].rt[1] = <<1, 48>>

C2_Witness ==
    /\ ReshapeNone344 /\ raised = "none"
    /\ layers[last.node_name].rt[1] = <<1, 48>>

\* ---- C3 (Spec)
\* C3: squeeze called on a node with more than one input raises and writes no
\* Environment entry for the node.
C3_SqueezeRejectsExtraInputs ==
    (last.op = "squeeze" /\ Len(last.inputs) > 1) => raised # "none" /\ ~Written

\* ---- C4 (Spec)
\* C4 as stated: whenever a lowering call raises, the Environment and the
\* closure side-table are exactly what they were before the call.
C4_NoPartialOutput ==
    [][raised' # "none" => layers' = layers /\ lambda_func' = lambda_func]_vars

\* Where the routine writes the node's entry before its last primitive runs.
UnsqueezeAccumulates(call) ==
    call.op = "unsqueeze" /\ is_numpy(layers[call.inputs[1]])

ReshapeAccumulates(call) ==
    /\ call.op = "reshape" /\ call.change_ordering
    /\ ~is_numpy(layers[call.inputs[1]]) /\ is_numpy(layers[call.inputs[2]])

\* C4 amended: when a lowering call raises, every entry of another node is
\* what it was before the call, and the Environment and the side-table are
\* unchanged altogether except in two cases, where the failing node's own
\* entry (and, for reshape, its closure) stays written: constant-path unsqueeze
\* failing on a requested axis and ordering-changing reshape of a tensor
\* failing after its layout step.
C4_PartialOutputOnlyWhereAccumulated ==
    [][raised' # "none" =>
          /\ \A id \in DOMAIN layers : id \in DOMAIN layers' /\ layers'[id] = layers[id]
          /\ DOMAIN layers' \subseteq DOMAIN layers \cup {node_name}
          /\ lambda_func \subseteq lambda_func'
          /\ lambda_func' \subseteq lambda_func \cup {keras_name}
          /\ \/ layers' = layers /\ lambda_func' = lambda_func
             \/ UnsqueezeAccumulates(last')
             \/ ReshapeAccumulates(last')]_vars

C4_Witness ==
    /\ raised = "TypeError" \/ raised = "ValueError"
    /\ ReshapeAccumulates(last)
    /\ Written
    /\ last.node_name \in lambda_func

\* ---- C5 (Spec)
\* C5 as stated: every entry is assigned exactly once, by the call lowering
\* its node, and no call reassigns, modifies or deletes an existing entry.
C5_WriteOnce ==
    [][/\ \A id \in DOMAIN layers : id \in DOMAIN layers' /\ layers'[id] = layers[id]
       /\ \A id \in DOMAIN layers' \ DOMAIN layers :
             id = node_name /\ nwrites'[id] = 1]_vars

\* C5 amended: an entry is written only by the call lowering its node, and
\* once that call is over no later call reassigns, modifies, retags or deletes
\* it; within its own call the entry is assigned exactly once, except by
\* constant-path unsqueeze and by ordering-changing reshape of a tensor, which
\* assign the node's entry more than once.
C5_WriteOncePerCall ==
    [][/\ \A id \in DOMAIN layers : id \in DOMAIN layers' /\ layers'[id] = layers[id]
       /\ \A id \in DOMAIN layers' \ DOMAIN layers :
             /\ id = node_name
             /\ \/ nwrites'[id] = 1
                \/ UnsqueezeAccumulates(last')
                \/ ReshapeAccumulates(last')]_vars

C5_Witness ==
    /\ ncalls = 2 /\ raised = "none"
    /\ calls[1].op = "unsqueeze" /\ nwrites["B"] = 3
    /\ calls[2].op = "reshape" /\ calls[2].inputs[1] = "B" /\ nwrites["C"] = 1
    /\ is_numpy(layers["B"]) /\ is_numpy(layers["C"])

\* ---- C6 (SpecResize)
ResizeWithRoi == last.op = "resize" /\ last.inputs[2] # ""

RoiFails == raised \in {"Exception: roi", "ValueError"} /\ ~Written

\* C6 as stated: resize with a bound region-of-interest input, whatever its
\* value (a zero-length array included), fails before the mode is examined and
\* writes no entry.
C6_AnyRoiRejected == ResizeWithRoi => RoiFails

\* C6 amended: resize fails before the mode is examined, and writes no entry,
\* when the region-of-interest input is bound to an array of two or more
\* elements or to a single non-zero element; a zero-length array and a single
\* zero count as "no region of interest".
C6_NonEmptyRoiRejected ==
    (/\ ResizeWithRoi
     /\ \/ Prod(Operand(2).shape) > 1
        \/ Prod(Operand(2).shape) = 1 /\ Operand(2).data[1] # 0) => RoiFails

C6_Witness ==
    /\ ResizeWithRoi /\ Prod(Operand(2).shape) > 1
    /\ last.mode = "area" /\ raised = "ValueError"

\* ---- C7 (SpecSlice)
SliceCall == last.op = "slice" /\ ~last.change_ordering

NamedAt(k) ==
    {i \in DOMAIN last.axes :
        (IF last.axes[i] < 0 THEN last.axes[i] + Len(Operand(1).shape)
         ELSE last.axes[i]) = k - 1}

\* C7: an axis the slice names gets the stop None when its end is at least
\* 2147483647 and its end otherwise; an axis it does not name gets the triple
\* {None, None, None}; slicing a length-10 axis from start 2 with end
\* 2147483647 yields the elements at positions 2..9.
C7_SliceEndNormalized ==
    SliceCall =>
        /\ Len(last.slice_spec_param) = Len(Operand(1).shape)
        /\ \A k \in DOMAIN last.slice_spec_param :
              /\ \A i \in NamedAt(k) :
                    last.slice_spec_param[k].stop =
                        (IF last.ends[i] >= 2147483647 THEN None ELSE last.ends[i])
              /\ NamedAt(k) = {} =>
                    /\ last.slice_spec_param[k].start = None
                    /\ last.slice_spec_param[k].stop = None
                    /\ last.slice_spec_param[k].step = None
        /\ (/\ last.inputs = <<"V10">>
            /\ Len(last.axes) = 1 /\ NamedAt(1) # {}
            /\ last.starts = <<2>> /\ last.ends = <<2147483647>>
            /\ last.steps[1] \in {None, 1})
           => /\ raised = "none" /\ Written
              /\ layers[last.node_name].data = <<2, 3, 4, 5, 6, 7, 8, 9>>

C7_Witness ==
    /\ SliceCall /\ last.inputs = <<"V10">>
    /\ last.axes = <<-1>> /\ last.starts = <<2>> /\ last.ends = <<2147483647>>
    /\ last.slice_spec_param[1].stop = None
    /\ raised = "none"
    /\ layers[last.node_name].data = <<2, 3, 4, 5, 6, 7, 8, 9>>

\* ---- C8 (Spec)
UnsqueezeThenReshape ==
    /\ ncalls >= 2
    /\ calls[1].op = "unsqueeze" /\ calls[1].inputs = <<"A">> /\ calls[1].axes = <<0>>
    /\ calls[2].op = "reshape" /\ calls[2].inputs = <<"B", "t1m">>

\* C8: with A a Constant of shape (1,4,6,6), B = unsqueeze(A, axes [0]) and
\* C = reshape(B, (1,-1)) leave A unchanged, write B as a Constant of shape
\* (1,1,4,6,6) and C as a Constant of shape (1,144) holding A's elements in
\* row-major order, and emit no graph node.
C8_ConstantChainFolds ==
    UnsqueezeThenReshape =>
        /\ layers["A"] = Initializers.A
        /\ is_numpy(layers["B"]) /\ layers["B"].shape = <<1, 1, 4, 6, 6>>
        /\ layers["B"].data = Initializers.A.data
        /\ "C" \in DOMAIN layers
        /\ is_numpy(layers["C"]) /\ layers["C"].shape = <<1, 144>>
        /\ layers["C"].data = Initializers.A.data
        /\ ncalls = 2 => graph = <<>> /\ raised = "none"

C8_Witness ==
    /\ UnsqueezeThenReshape /\ ncalls = 2
    /\ layers["C"].shape = <<1, 144>> /\ graph = <<>>

\* ---- C9 (SpecGather)
\* The reference "take along axis": out[o, j, k] = data[o, indices[j], k]
NpTakeShape(v, idx, axis) ==
    PyUpTo(v.shape, axis) \o idx.shape \o PyFrom(v.shape, axis + 1)

NpTakeData(v, idx, axis) ==
    LET n == v.shape[axis + 1]
        inner == Prod(PyFrom(v.shape, axis + 1))
        m == Len(idx.data)
        outer == Prod(PyUpTo(v.shape, axis))
    IN  [p \in 1..(outer * m * inner) |->
            v.data[(((p - 1) \div (m * inner)) * n
                    + NormIndex(idx.data[(((p - 1) \div inner) % m) + 1], n)) * inner
                   + ((p - 1) % inner) + 1]]

\* C9: with both operands Constant and no embedding flag, for every axis in
\* 0..3 within the data's rank (indices within the axis) the lowering succeeds
\* and writes the Constant that takes the data along that axis.
C9_GatherConstantFold ==
    (/\ last.op = "gather" /\ GatherNumpyPath
     /\ last.axis \in 0..3 /\ last.axis < Len(Operand(1).shape)
     /\ \A j \in DOMAIN Operand(2).data :
           IndexOk(Operand(2).data[j], Operand(1).shape[last.axis + 1]))
    => /\ raised = "none" /\ Written
       /\ is_numpy(layers[last.node_name])
       /\ layers[last.node_name].shape = NpTakeShape(Operand(1), Operand(2), last.axis)
       /\ layers[last.node_name].data = NpTakeData(Operand(1), Operand(2), last.axis)

\* ---- C10 (Spec)
ReshapeSymbolicTarget == last.op = "reshape" /\ ~is_numpy(Operand(2))

\* C10: reshape whose target-shape operand is Symbolic raises the
\* configuration error, whatever the data operand and the ordering flag, and
\* writes neither an Environment entry nor a closure side-table entry.
C10_DynamicTargetRejected ==
    ReshapeSymbolicTarget =>
        /\ raised = "AttributeError"
        /\ ~Written
        /\ last.node_name \notin lambda_func

C10_Witness ==
    /\ ReshapeSymbolicTarget /\ ~is_numpy(Operand(1)) /\ last.change_ordering
    /\ raised = "AttributeError"

\* ---- C11 (SpecReshape)
ReshapeKeep ==
    /\ last.op = "reshape" /\ ~last.change_ordering
    /\ ~is_numpy(Operand(1)) /\ is_numpy(Operand(2))

\* The mismatch index: the first leading position where source and target
\* differ (0 when they agree on every leading position).
MismatchIndex(s, t) ==
    LET n == Min(Len(s), Len(t))
    IN  IF \E i \in 1..n : s[i] # t[i]
        THEN (CHOOSE i \in 1..n : s[i] # t[i] /\ \A j \in 1..(i - 1) : s[j] = t[j]) - 1
        ELSE 0

\* The primitive the prioritized steps (2)..(5) select for source s, target t.
SelectedBranch(s, t) ==
    IF /\ HasNone(t) /\ HasNone(s) /\ Len(t) < Len(s)
       /\ t[MismatchIndex(s, t) + 1] = -1
    THEN "tf.reshape:dynamic"
    ELSE IF PyFrom(t, 1) = <<-1>> THEN "keras.Flatten"
    ELSE IF s[1] # t[1] THEN "tf.reshape"
    ELSE "keras.Reshape"

BranchWritten ==
    /\ raised = "none" /\ Written
    /\ nwrites[last.node_name] = 1
    /\ layers[last.node_name].prim = SelectedBranch(Operand(1).shape, Operand(2).data)

\* A source whose only unresolved axis is the batch axis, and a target with
\* the same batch axis, a known tail and at most one wildcard.
WellFormedPair(s, t) ==
    /\ s[1] = None /\ ~HasNone(PyFrom(s, 1))
    /\ t[1] = None /\ ~HasNone(PyFrom(t, 1)) /\ Count(t, -1) <= 1

\* C11 as stated: for a Symbolic operand, a Constant target and no ordering
\* change, every source/target shape pair fires exactly one of the branches
\* (2)..(5), in that priority, and writes exactly one Environment entry.
\* (Stated here for the well-formed pairs alone, which it includes.)
C11_EveryPairWritesOneEntry ==
    (ReshapeKeep /\ WellFormedPair(Operand(1).shape, Operand(2).data)) => BranchWritten

\* C11 amended: the branch is chosen by the priorities (2)..(5); steps (2)
\* and (3) always write the entry, while steps (4) and (5) write it only when
\* the emitted primitive accepts the shapes, and otherwise (also when the
\* target holds an unresolved axis after its first, or is longer than a source
\* of rank two or more on a build where that comparison raises) the call
\* raises and writes nothing.  Never more than one assignment is made.
C11_OneBranchSelectedWhenAccepted ==
    ReshapeKeep =>
        /\ raised = "none" => BranchWritten
        /\ raised # "none" => ~Written /\ nwrites[last.node_name] = 0
        /\ SelectedBranch(Operand(1).shape, Operand(2).data)
              \in {"tf.reshape:dynamic", "keras.Flatten"} => raised = "none"

C11_Witness ==
    /\ ReshapeKeep /\ raised = "none" /\ Written
    /\ Operand(1).shape = <<None, 3, 4>> /\ Operand(2).data = <<-1, 4>>
    /\ layers[last.node_name].prim = "tf.reshape"
    /\ layers[last.node_name].rt[2] = <<6, 4>>
====
